---- MODULE Spec2Model ----
(***************************************************************************)
(* Friday-Monday pattern trading system: the setup detector, the gap       *)
(* detector, the position sizing and the two-run email pipeline            *)
(* (src/email_automation.py), with the dashboard's variants                *)
(* (src/trading_app.py) where they differ.                                 *)
(*                                                                         *)
(* Prices are integers (price units); every float expression of the source *)
(* is computed as an exact rational [n, d].  A division by zero gives what *)
(* numpy's float64 gives: d = 0, which is +inf (n > 0), -inf (n < 0) or    *)
(* nan (n = 0).  Float rounding error is not modelled.                     *)
(***************************************************************************)
EXTENDS Integers, Sequences, FiniteSets, TLC

VARIABLES
    pc,             \* position of a single call: "call" | "done" ("none": no call)
    data,           \* the DataFrame handed to a detector; send_friday_alert's data
    pattern,        \* what check_pattern_setup returned
    gap_info,       \* what check_monday_gap returned
    trade,          \* capital, entry, target and stop handed to the sizing
    signal,         \* what send_monday_alert's sizing computed, or raised
    app_signal,     \* what the dashboard's sizing computed, or raised
    run,            \* the email pipeline: "idle", or the run and its position
    today,          \* the date of datetime.now(), a day number
    csv_files,      \* the friday_watchlist_<date>.csv files: date -> cells
    hist_stats,     \* nifty50_summary_stats.csv as load_historical_stats reads it
    watchlist,      \* send_friday_alert's watchlist
    watchlist_df,   \* send_monday_alert's watchlist_df
    trading_capital,\* send_monday_alert's capital, of config.json
    trade_signals,  \* send_monday_alert's trade_signals
    signals_df,     \* the saved monday_signals csv of the run, if any
    pos,            \* the loop's position in the basket or the watchlist
    outcomes,       \* history: per symbol of the run, how its pass ended
    report,         \* what the run reported (the email's subject)
    last_friday     \* history: the watchlist of the latest finished Friday run

\* the variables of a single call but data, which the pipeline's loops set too
call_results == <<pc, pattern, trade, signal, app_signal>>

call_vars == <<call_results, data>>

pipeline_vars ==
    <<run, today, csv_files, hist_stats, watchlist, watchlist_df,
      trading_capital, trade_signals, signals_df, pos, outcomes, report,
      last_friday>>

vars == <<call_vars, gap_info, pipeline_vars>>

-----------------------------------------------------------------------------
(* Python values *)

\* Python's None
None == [isNone |-> TRUE]

-----------------------------------------------------------------------------
(* float64 arithmetic, as exact rationals with inf and nan *)

Abs(x) == IF x < 0 THEN -x ELSE x

Sign(x) == IF x < 0 THEN -1 ELSE IF x > 0 THEN 1 ELSE 0

RECURSIVE Gcd(_, _)
Gcd(a, b) == IF b = 0 THEN a ELSE Gcd(b, a % b)

\* the rational n/d in lowest terms with d >= 0; n/0 is inf, -inf or nan
Rat(n, d) ==
    IF d = 0 THEN [n |-> Sign(n), d |-> 0]
    ELSE LET g == Gcd(Abs(n), Abs(d))
         IN  [n |-> Sign(d) * (n \div g), d |-> Abs(d) \div g]

R(i) == Rat(i, 1)

IsNaN(x) == x.d = 0 /\ x.n = 0

IsInf(x) == x.d = 0 /\ x.n # 0

IsFinite(x) == x.d # 0

\* float('nan')
NaN == [n |-> 0, d |-> 0]

\* x + y; inf + -inf is nan
RAdd(x, y) == Rat(x.n * y.d + y.n * x.d, x.d * y.d)

\* x - y; inf - inf is nan
RSub(x, y) == Rat(x.n * y.d - y.n * x.d, x.d * y.d)

\* x * y
RMul(x, y) == Rat(x.n * y.n, x.d * y.d)

\* x / y, float64 semantics: finite/0 is inf or nan, finite/inf is 0
RDiv(x, y) ==
    IF y.d = 0 /\ x.d = 0 THEN Rat(0, 0)
    ELSE Rat(x.n * y.d * (IF y.n < 0 THEN -1 ELSE 1), x.d * Abs(y.n))

RAbs(x) == [n |-> Abs(x.n), d |-> x.d]

\* x < y, float64 semantics: every comparison with nan is False
RLt(x, y) ==
    IF IsNaN(x) \/ IsNaN(y) THEN FALSE
    ELSE IF x.d = 0 /\ y.d = 0 THEN x.n < y.n
    ELSE IF x.d = 0 THEN x.n < 0
    ELSE IF y.d = 0 THEN y.n > 0
    ELSE x.n * y.d < y.n * x.d

RLe(x, y) == RLt(x, y) \/ (~IsNaN(x) /\ x = y)

-----------------------------------------------------------------------------
(* DataFrames: a sequence of rows ascending by Date, one per trading day. *)
(* Date is a day number, day 0 a Monday.                                   *)

\* pandas' Timestamp.dayofweek: Monday 0 .. Sunday 6
dayofweek(row) == row.Date % 7

\* a DataFrame of the given rows
DataFrame(rows) == [rows |-> rows]

\* len(df)
len(df) == Len(df.rows)

\* DataFrame.tail(k)
tail(df, k) ==
    IF len(df) <= k THEN df
    ELSE DataFrame(SubSeq(df.rows, len(df) - k + 1, len(df)))

\* DataFrame.columns
Columns(df) == IF len(df) = 0 THEN {} ELSE DOMAIN df.rows[1]

-----------------------------------------------------------------------------
(* Indicator calculator *)

\* data['Close'].diff(): nan at the first bar
Diff(df, i) ==
    IF i = 1 THEN NaN ELSE R(df.rows[i].Close - df.rows[i - 1].Close)

\* delta.where(delta > 0, 0): the delta where it is positive, 0 elsewhere
\* (nan > 0 is False)
Gains(df) ==
    [i \in 1..len(df) |-> IF RLt(R(0), Diff(df, i)) THEN Diff(df, i) ELSE R(0)]

\* delta.where(delta < 0, 0)
Losses(df) ==
    [i \in 1..len(df) |-> IF RLt(Diff(df, i), R(0)) THEN Diff(df, i) ELSE R(0)]

\* the sum of series[lo..hi]
RECURSIVE RSum(_, _, _)
RSum(series, lo, hi) ==
    IF lo > hi THEN R(0) ELSE RAdd(RSum(series, lo, hi - 1), series[hi])

\* Series.rolling(w).mean() at bar i: nan before the w-th bar
RollingMean(series, i, w) ==
    IF i < w THEN NaN ELSE RDiv(RSum(series, i - w + 1, i), R(w))

\* gain / loss with a zero loss answered by nan
RelativeStrengthGuarded(gain, loss_mean) ==
    IF IsNaN(gain) \/ IsNaN(loss_mean) THEN NaN
    ELSE IF loss_mean.n = 0 THEN NaN
         ELSE RDiv(gain, RMul(R(-1), loss_mean))

\* rs = gain / loss, loss being minus the rolling mean of the losses: a mean
\* of 0.0 negated is -0.0, and gain / -0.0 is -inf for a positive gain, nan
\* for a gain of 0
RelativeStrength(gain, loss_mean) ==
    IF IsNaN(gain) \/ IsNaN(loss_mean) THEN NaN
    ELSE IF loss_mean.n = 0
         THEN (IF gain.n > 0 THEN Rat(-1, 0) ELSE NaN)
         ELSE RDiv(gain, RMul(R(-1), loss_mean))

\* 100 - (100 / (1 + rs))
RsiOf(rs) == RSub(R(100), RDiv(R(100), RAdd(R(1), rs)))

\* the sequence of a column's values
Column(df, c) == [i \in 1..len(df) |-> R(df.rows[i][c])]

\* the look-backs of rolling(14) and rolling(20)
RsiWindow == 14

SmaWindow == 20

\* a threshold of 14 bars
MinBarsOfRsi == 20 - 6

\* the 20 of `if len(data) < 20`
MinBars == 20

\* the frame with the columns RSI, SMA_20, Volume_SMA_20 and Volume_Ratio set
WithIndicators(df) ==
    DataFrame(
        [i \in 1..len(df) |->
            LET gain == RollingMean(Gains(df), i, RsiWindow)
                loss_mean == RollingMean(Losses(df), i, RsiWindow)
                volume_sma == RollingMean(Column(df, "Volume"), i, SmaWindow)
                indicators ==
                    [RSI |-> RsiOf(RelativeStrength(gain, loss_mean)),
                     SMA_20 |-> RollingMean(Column(df, "Close"), i, SmaWindow),
                     Volume_SMA_20 |-> volume_sma,
                     Volume_Ratio |-> RDiv(R(df.rows[i].Volume), volume_sma)]
            IN  [c \in DOMAIN df.rows[i] \cup DOMAIN indicators |->
                    IF c \in DOMAIN indicators THEN indicators[c]
                    ELSE df.rows[i][c]]])

\* calculate_indicators(data): the frame data is after the call, which is
\* also the frame returned (`return data` in both branches)
calculate_indicators(df) ==
    IF len(df) < MinBars THEN df ELSE WithIndicators(df)

-----------------------------------------------------------------------------
(* Setup detector *)

\* the loop ended at the first Thursday, whatever follows it
RECURSIVE ScanFirstThursdayOnly(_, _, _)
ScanFirstThursdayOnly(recent, i, th) ==
    IF i > len(recent) - 1
    THEN [thursday_data |-> th, friday_data |-> None]
    ELSE IF dayofweek(recent.rows[i]) = 3
         THEN IF i + 1 <= len(recent) /\ dayofweek(recent.rows[i + 1]) = 4
              THEN [thursday_data |-> recent.rows[i],
                    friday_data |-> recent.rows[i + 1]]
              ELSE [thursday_data |-> recent.rows[i], friday_data |-> None]
         ELSE ScanFirstThursdayOnly(recent, i + 1, th)

\* the loop of check_pattern_setup from index i on (1-based), thursday_data
\* being th so far: the values of thursday_data and friday_data at its end
RECURSIVE ScanThursdayFriday(_, _, _)
ScanThursdayFriday(recent, i, th) ==
    IF i > len(recent) - 1
    THEN [thursday_data |-> th, friday_data |-> None]
    ELSE IF dayofweek(recent.rows[i]) = 3
         THEN IF i + 1 <= len(recent) /\ dayofweek(recent.rows[i + 1]) = 4
              THEN [thursday_data |-> recent.rows[i],
                    friday_data |-> recent.rows[i + 1]]
              ELSE ScanThursdayFriday(recent, i + 1, recent.rows[i])
         ELSE ScanThursdayFriday(recent, i + 1, th)

\* ((thursday High - friday High) / thursday High) * 100
DeclinePctReversed(thursday_data, friday_data) ==
    RMul(RDiv(RSub(R(thursday_data.High), R(friday_data.High)),
              R(thursday_data.High)),
         R(100))

\* ((friday High - thursday High) / thursday High) * 100
DeclinePct(thursday_data, friday_data) ==
    RMul(RDiv(RSub(R(friday_data.High), R(thursday_data.High)),
              R(thursday_data.High)),
         R(100))

\* the indices of the bars of df whose RSI is not nan
DefinedRsi(df) == {i \in 1..len(df) : ~IsNaN(df.rows[i].RSI)}

\* the RSI of the last bar of df that has one which is not nan
LastDefinedRsi(df) ==
    IF "RSI" \in Columns(df)
    THEN IF DefinedRsi(df) = {} THEN NaN
         ELSE df.rows[CHOOSE i \in DefinedRsi(df) :
                          \A j \in DefinedRsi(df) : j <= i].RSI
    ELSE None

\* data['RSI'].iloc[-1] if 'RSI' in data.columns else None
LastRsi(df) ==
    IF "RSI" \in Columns(df) THEN df.rows[len(df)].RSI ELSE None

\* check_pattern_setup with `<=` for the `<` of its High comparison
check_pattern_setup_le(df) ==
    IF df = None \/ len(df) < 2 THEN None
    ELSE LET found == ScanThursdayFriday(tail(df, 5), 1, None)
             thursday_data == found.thursday_data
             friday_data == found.friday_data
         IN  IF thursday_data = None \/ friday_data = None THEN None
             ELSE IF friday_data.High <= thursday_data.High
                  THEN [friday_low |-> friday_data.Low,
                        friday_close |-> friday_data.Close,
                        friday_high |-> friday_data.High,
                        decline_pct |-> DeclinePct(thursday_data, friday_data),
                        rsi |-> LastRsi(df)]
                  ELSE None

\* check_pattern_setup(data)
check_pattern_setup(df) ==
    IF df = None \/ len(df) < 2 THEN None
    ELSE LET found == ScanThursdayFriday(tail(df, 5), 1, None)
             thursday_data == found.thursday_data
             friday_data == found.friday_data
         IN  IF thursday_data = None \/ friday_data = None THEN None
             ELSE IF friday_data.High < thursday_data.High
                  THEN [friday_low |-> friday_data.Low,
                        friday_close |-> friday_data.Close,
                        friday_high |-> friday_data.High,
                        decline_pct |-> DeclinePct(thursday_data, friday_data),
                        rsi |-> LastRsi(df)]
                  ELSE None

-----------------------------------------------------------------------------
(* Gap detector *)

\* a window one bar longer than check_monday_gap's
GapWindowWide == 3 + 1

\* the 3 of data.tail(3) in check_monday_gap
GapWindow == 3

\* the -0.3 of `gap_pct < -0.3`
GapThreshold == Rat(-3, 10)

\* the loop taking a Monday bar only once a Friday bar has been seen
RECURSIVE ScanMondayAfterFriday(_, _, _)
ScanMondayAfterFriday(recent, i, found) ==
    IF i > len(recent) THEN found
    ELSE IF dayofweek(recent.rows[i]) = 4
         THEN ScanMondayAfterFriday(recent, i + 1,
                  [found EXCEPT !.friday_close = R(recent.rows[i].Close)])
         ELSE IF dayofweek(recent.rows[i]) = 0 /\ found.friday_close # None
              THEN ScanMondayAfterFriday(recent, i + 1,
                       [found EXCEPT !.monday_open = R(recent.rows[i].Open),
                                     !.monday_data = recent.rows[i]])
              ELSE ScanMondayAfterFriday(recent, i + 1, found)

\* the loop of check_monday_gap from index i on (1-based): the values of
\* friday_close, monday_open and monday_data at its end
RECURSIVE ScanFridayMonday(_, _, _)
ScanFridayMonday(recent, i, found) ==
    IF i > len(recent) THEN found
    ELSE IF dayofweek(recent.rows[i]) = 4
         THEN ScanFridayMonday(recent, i + 1,
                  [found EXCEPT !.friday_close = R(recent.rows[i].Close)])
         ELSE IF dayofweek(recent.rows[i]) = 0
              THEN ScanFridayMonday(recent, i + 1,
                       [found EXCEPT !.monday_open = R(recent.rows[i].Open),
                                     !.monday_data = recent.rows[i]])
              ELSE ScanFridayMonday(recent, i + 1, found)

\* ((monday_open - friday_close) / friday_close) * 100
GapPct(monday_open, friday_close) ==
    RMul(RDiv(RSub(monday_open, friday_close), friday_close), R(100))

\* gap_pct <= -0.3
HasGapDownLe(gap_pct) == RLe(gap_pct, GapThreshold)

\* gap_pct < -0.3
HasGapDown(gap_pct) == RLt(gap_pct, GapThreshold)

\* check_monday_gap(data)
check_monday_gap(df) ==
    IF df = None \/ len(df) < 2 THEN None
    ELSE LET found == ScanFridayMonday(tail(df, GapWindow), 1,
                          [friday_close |-> None, monday_open |-> None,
                           monday_data |-> None])
             friday_close == found.friday_close
             monday_open == found.monday_open
             monday_data == found.monday_data
         IN  IF friday_close = None \/ monday_open = None THEN None
             ELSE LET gap_pct == GapPct(monday_open, friday_close)
                  IN  [friday_close |-> friday_close,
                       monday_open |-> monday_open,
                       monday_low |-> R(monday_data.Low),
                       gap_pct |-> gap_pct,
                       has_gap_down |-> HasGapDown(gap_pct)]

-----------------------------------------------------------------------------
(* Signal synthesis: the trade levels and the position size *)

\* a finite float rounded up
IntCeil(q) ==
    IF q.n >= 0 THEN (q.n + q.d - 1) \div q.d ELSE -((-q.n) \div q.d)

\* int(x) of a finite float: truncation toward zero
Int_(q) ==
    IF q.n >= 0 THEN q.n \div q.d ELSE -((-q.n) \div q.d)

\* what int(x) raises on a float that is not finite
IntError(q) == IF IsNaN(q) THEN "ValueError" ELSE "OverflowError"

\* capital * 0.01 taken as 2% of the capital
RiskAmountDouble(capital) == RMul(R(capital), Rat(2, 100))

\* risk_amount = capital * 0.01
RiskAmount(capital) == RMul(R(capital), Rat(1, 100))

\* shares * (stop - entry)
LossIfStopReversed(shares, entry, stop) == RMul(R(shares), RSub(stop, entry))

\* loss_if_stop = shares * (entry - stop)
LossIfStop(shares, entry, stop) == RMul(R(shares), RSub(entry, stop))

\* send_monday_alert, from `entry = ...` to `loss_if_stop = ...`: the values
\* of its locals, or the exception of `shares = int(...)`
MondaySizing(capital, entry, target, stop) ==
    LET profit_pct == RMul(RDiv(RSub(target, entry), entry), R(100))
        risk_pct == RAbs(RMul(RDiv(RSub(stop, entry), entry), R(100)))
        risk_amount == RiskAmount(capital)
        position_value == RDiv(risk_amount, RDiv(risk_pct, R(100)))
        quotient == RDiv(position_value, entry)
    IN  IF ~IsFinite(quotient) THEN [raised |-> IntError(quotient)]
        ELSE LET shares == Int_(quotient)
             IN  [raised |-> "no",
                  entry |-> entry, target |-> target, stop |-> stop,
                  profit_pct |-> profit_pct, risk_pct |-> risk_pct,
                  risk_amount |-> risk_amount,
                  position_value |-> position_value,
                  shares |-> shares,
                  profit_if_target |-> RMul(R(shares), RSub(target, entry)),
                  loss_if_stop |-> LossIfStop(shares, entry, stop)]

\* calculate_position_size(capital, risk_pct, stop_distance_pct)
calculate_position_size(capital, risk_pct, stop_distance_pct) ==
    LET risk_amount == RMul(R(capital), RDiv(risk_pct, R(100)))
        position_value == RDiv(risk_amount, RDiv(stop_distance_pct, R(100)))
    IN  position_value

\* the dashboard's Monday scanner, from `entry = ...` to the trade_signals
\* entry: the values of its locals, or the exception of `shares = int(...)`
AppMondaySizing(capital, entry, target, stop) ==
    LET profit_pct == RMul(RDiv(RSub(target, entry), entry), R(100))
        risk_pct == RMul(RDiv(RSub(stop, entry), entry), R(100))
        position_value == calculate_position_size(capital, R(1), RAbs(risk_pct))
        quotient == RDiv(position_value, entry)
    IN  IF ~IsFinite(quotient) THEN [raised |-> IntError(quotient)]
        ELSE LET shares == Int_(quotient)
                 loss_if_stop == LossIfStop(shares, entry, stop)
             IN  [raised |-> "no",
                  entry |-> entry, target |-> target, stop |-> stop,
                  profit_pct |-> profit_pct, risk_pct |-> RAbs(risk_pct),
                  position_value |-> position_value,
                  shares |-> shares,
                  actual_position |-> RMul(R(shares), entry),
                  profit_if_target |-> RMul(R(shares), RSub(target, entry)),
                  loss_if_stop |-> loss_if_stop,
                  capital_risk_pct |->
                      RMul(RDiv(RAbs(loss_if_stop), R(capital)), R(100))]

-----------------------------------------------------------------------------
(* The email pipeline: send_friday_alert and send_monday_alert *)

\* NIFTY_50_STOCKS, its first entries, in the dict's order
NIFTY_50_STOCKS ==
    <<[symbol |-> "ADANIPORTS.NS", name |-> "Adani Ports"],
      [symbol |-> "ASIANPAINT.NS", name |-> "Asian Paints"],
      [symbol |-> "AXISBANK.NS", name |-> "Axis Bank"],
      [symbol |-> "BAJAJ-AUTO.NS", name |-> "Bajaj Auto"]>>

\* how many entries of NIFTY_50_STOCKS a scan goes through
BasketSize == 2

\* the last date a run can happen on
LastDay == 1

\* the pipeline before any run: no file, no run in progress
PipelineAtRest ==
    /\ run = "idle"
    /\ today = 0
    /\ csv_files = <<>>
    /\ hist_stats = None
    /\ watchlist = <<>>
    /\ watchlist_df = None
    /\ trading_capital = None
    /\ trade_signals = <<>>
    /\ signals_df = None
    /\ pos = 0
    /\ outcomes = <<>>
    /\ report = "none"
    /\ last_friday = <<>>

\* load_historical_stats: no table, or Symbol -> Gap_Down_Success_Rate
HistTables ==
    {None,
     [rates |-> ("Adani Ports" :> 90 @@ "Asian Paints" :> 95)]}

\* gap_success of send_friday_alert
GapSuccess(stats, name) ==
    IF stats # None
    THEN IF name \in DOMAIN stats.rates THEN R(stats.rates[name]) ELSE R(0)
    ELSE R(0)

\* the list with the rows of seq, x put before the first row it is greater
\* than by key
RECURSIVE InsertDescending(_, _, _)
InsertDescending(seq, x, key) ==
    IF seq = <<>> THEN <<x>>
    ELSE IF RLt(seq[Len(seq)][key], x[key])
         THEN Append(InsertDescending(SubSeq(seq, 1, Len(seq) - 1), x, key),
                     seq[Len(seq)])
         ELSE Append(seq, x)

\* DataFrame.sort_values(key, ascending=False), rows of equal key in their order
RECURSIVE sort_values(_, _)
sort_values(seq, key) ==
    IF seq = <<>> THEN <<>>
    ELSE InsertDescending(sort_values(SubSeq(seq, 1, Len(seq) - 1), key),
                          seq[Len(seq)], key)

\* an empty cell of a csv file
EmptyCell == [empty |-> TRUE]

\* to_csv with every falsy value (None, nan, 0) written as an empty cell
to_csv_falsy_empty(rows) ==
    [k \in 1..Len(rows) |->
        [c \in DOMAIN rows[k] |->
            IF c \in {"Stock", "NSE_Code"} THEN rows[k][c]
            ELSE IF rows[k][c] = None \/ IsNaN(rows[k][c]) \/ rows[k][c] = R(0)
                 THEN EmptyCell
                 ELSE rows[k][c]]]

\* DataFrame.to_csv: a None or nan value is written as an empty cell, a
\* number as its shortest decimal text that reads back as the same float
to_csv(rows) ==
    [k \in 1..Len(rows) |->
        [c \in DOMAIN rows[k] |->
            IF c \in {"Stock", "NSE_Code"} THEN rows[k][c]
            ELSE IF rows[k][c] = None \/ IsNaN(rows[k][c]) THEN EmptyCell
                 ELSE rows[k][c]]]

\* pd.read_csv: an empty cell is read as nan
read_csv(cells) ==
    DataFrame([k \in 1..Len(cells) |->
        [c \in DOMAIN cells[k] |->
            IF c \in {"Stock", "NSE_Code"} THEN cells[k][c]
            ELSE IF cells[k][c] = EmptyCell THEN Rat(0, 0)
                 ELSE cells[k][c]]])

\* the bars the market data source returns in this model: a Thursday, the
\* Friday after it, the Monday after that
ThursdayBars == {[Date |-> 3, Open |-> 3, High |-> 4, Low |-> 2, Close |-> 3]}

FridayBars ==
    {[Date |-> 4, Open |-> 2, High |-> 3, Low |-> 1, Close |-> 2],
     [Date |-> 4, Open |-> 4, High |-> 4, Low |-> 4, Close |-> 4]}

MondayBars ==
    {[Date |-> 7, Open |-> o, High |-> 3, Low |-> 0, Close |-> 1] :
        o \in {0, 2, 3}}

\* the rows of an optional bar
Opt(bars) == {<<>>} \cup {<<b>> : b \in bars}

\* yf.download: the frames the market data source can return
MarketFrames ==
    {DataFrame(t \o f \o m) :
        t \in Opt(ThursdayBars), f \in Opt(FridayBars), m \in Opt(MondayBars)}

\* yf.download raised an exception
DownloadError == [raised |-> "Exception"]

\* download_stock_data: None when the download raised or came back empty
download_stock_data(downloaded) ==
    IF downloaded = DownloadError THEN None
    ELSE IF len(downloaded) = 0 THEN None
         ELSE downloaded

\* what yf.download does: it raises, or returns a frame
Downloads == {DownloadError} \cup MarketFrames

\* what yf.download does on the Friday: the Monday after it is not there yet
FridayDownloads ==
    {DownloadError} \cup
    {DataFrame(t \o f) : t \in Opt(ThursdayBars), f \in Opt(FridayBars)}

\* config.json's trading capital
Capitals == {0, 100000}

\* send_friday_alert up to its loop
FridayStart ==
    /\ run = "idle"
    /\ run' = "friday"
    /\ watchlist' = <<>>
    /\ pos' = 1
    /\ outcomes' = <<>>
    /\ report' = "none"
    /\ UNCHANGED <<today, last_friday, csv_files, hist_stats, watchlist_df,
                   trading_capital, trade_signals, signals_df, call_vars, gap_info>>

\* the rest of a pass of send_friday_alert's loop once the data is there:
\* the setup detector, and the watchlist entry of a setup found
FridayFound(fetched) ==
    LET symbol == NIFTY_50_STOCKS[pos].symbol
        name == NIFTY_50_STOCKS[pos].name
        found == check_pattern_setup(calculate_indicators(fetched))
    IN  /\ IF found # None
           THEN /\ watchlist' = Append(watchlist,
                       [Stock |-> name,
                        NSE_Code |-> symbol,
                        Friday_Low |-> R(found.friday_low),
                        Friday_Close |-> R(found.friday_close),
                        Friday_High |-> R(found.friday_high),
                        Decline |-> found.decline_pct,
                        RSI |-> found.rsi,
                        Gap_Success |-> GapSuccess(hist_stats, name)])
                /\ outcomes' = Append(outcomes, "SetupFound")
           ELSE /\ watchlist' = watchlist
                /\ outcomes' = Append(outcomes, "NoSetup")
        /\ pos' = pos + 1
        /\ UNCHANGED <<run, report>>

\* the body of the loop without the `if data is not None:` guard's isolation:
\* a fetch that failed ends the run
FridayPassAborting(fetched) ==
    IF fetched # None
    THEN FridayFound(fetched)
    ELSE /\ outcomes' = Append(outcomes, "DataUnavailable")
         /\ run' = "friday_done"
         /\ report' = "Exception"
         /\ UNCHANGED <<watchlist, pos>>

\* the body of send_friday_alert's loop: `if data is not None:` and no else
FridayPass(fetched) ==
    IF fetched # None
    THEN FridayFound(fetched)
    ELSE /\ outcomes' = Append(outcomes, "DataUnavailable")
         /\ pos' = pos + 1
         /\ UNCHANGED <<watchlist, run, report>>

\* one pass of send_friday_alert's loop over NIFTY_50_STOCKS
FridayScan ==
    /\ run = "friday"
    /\ pos <= BasketSize
    /\ \E downloaded \in FridayDownloads :
          LET fetched == download_stock_data(downloaded)
          IN  /\ data' = IF fetched # None THEN calculate_indicators(fetched)
                         ELSE None
              /\ FridayPass(fetched)
    /\ UNCHANGED <<today, last_friday, csv_files, hist_stats, watchlist_df, trading_capital,
                   trade_signals, signals_df, call_results, gap_info>>

\* send_friday_alert after its loop: the report, and the csv file of the date
FridayReport ==
    /\ run = "friday"
    /\ pos > BasketSize
    /\ IF Len(watchlist) = 0
       THEN /\ report' = "Friday Scanner: No Setups"
            /\ csv_files' = csv_files
       ELSE /\ report' = "Friday Alert: Pattern Setups Found"
            /\ csv_files' =
                 [d \in DOMAIN csv_files \cup {today} |->
                     IF d = today
                     THEN to_csv(sort_values(watchlist, "Gap_Success"))
                     ELSE csv_files[d]]
    /\ run' = "friday_done"
    /\ UNCHANGED <<today, hist_stats, watchlist, watchlist_df, trading_capital,
                   trade_signals, signals_df, pos, outcomes, call_vars, gap_info>>

\* the end of send_friday_alert
FridayFinish == FridayReport /\ UNCHANGED last_friday

\* the end of send_friday_alert, what the run found kept as history
FridayFinishRecorded == FridayReport /\ last_friday' = watchlist

\* max(csv_files): the file of the latest date
LatestWatchlist(files) == CHOOSE d \in DOMAIN files : \A e \in DOMAIN files : e <= d

\* send_monday_alert up to its loop without the `if not csv_files:` return:
\* no watchlist file is an empty watchlist
MondayStartWithoutCheck ==
    /\ run = "idle"
    /\ outcomes' = <<>>
    /\ trade_signals' = <<>>
    /\ signals_df' = None
    /\ watchlist_df' =
          IF DOMAIN csv_files = {} THEN DataFrame(<<>>)
          ELSE read_csv(csv_files[LatestWatchlist(csv_files)])
    /\ trading_capital' \in Capitals
    /\ run' = "monday"
    /\ pos' = 1
    /\ report' = "none"
    /\ UNCHANGED <<today, last_friday, csv_files, hist_stats, watchlist, call_vars, gap_info>>

\* send_monday_alert up to its loop: the watchlist and the capital are loaded,
\* or the run ends for want of a watchlist file or on an error reading it
MondayStart ==
    /\ run = "idle"
    /\ outcomes' = <<>>
    /\ trade_signals' = <<>>
    /\ signals_df' = None
    /\ IF DOMAIN csv_files = {}
       THEN /\ report' = "Monday Scanner: Error - No Watchlist"
            /\ run' = "monday_done"
            /\ UNCHANGED <<watchlist_df, trading_capital, pos>>
       ELSE \/ /\ watchlist_df' = read_csv(csv_files[LatestWatchlist(csv_files)])
               /\ trading_capital' \in Capitals
               /\ run' = "monday"
               /\ pos' = 1
               /\ report' = "none"
            \/ /\ report' = "Error loading watchlist"
               /\ run' = "monday_done"
               /\ UNCHANGED <<watchlist_df, trading_capital, pos>>
    /\ UNCHANGED <<today, last_friday, csv_files, hist_stats, watchlist, call_vars, gap_info>>

\* `gap_info` alone
ActionableAny(gap) == gap # None

\* `gap_info and gap_info['has_gap_down']`
Actionable(gap) == gap # None /\ gap.has_gap_down

\* entry, target and stop with Friday_High and Friday_Low taken for each other
TradeLevelsSwapped(gap, row) ==
    [entry |-> gap.monday_open,
     target |-> row.Friday_High,
     stop |-> row.Friday_Low]

\* entry, target and stop of send_monday_alert
TradeLevels(gap, row) ==
    [entry |-> gap.monday_open,
     target |-> row.Friday_Low,
     stop |-> row.Friday_High]

\* one pass of send_monday_alert's loop over the watchlist's rows; the
\* exception of int() is caught nowhere and ends the run
MondayScan ==
    /\ run = "monday"
    /\ pos <= len(watchlist_df)
    /\ \E downloaded \in Downloads :
        LET row == watchlist_df.rows[pos]
            fetched == download_stock_data(downloaded)
            gap == check_monday_gap(fetched)
        IN  /\ gap_info' = gap
            /\ IF Actionable(gap)
               THEN LET levels == TradeLevels(gap, row)
                        sized == MondaySizing(trading_capital, levels.entry,
                                              levels.target, levels.stop)
                    IN  IF sized.raised # "no"
                        THEN /\ run' = "monday_raised"
                             /\ report' = sized.raised
                             /\ outcomes' = Append(outcomes, "Raised")
                             /\ UNCHANGED <<trade_signals, pos>>
                        ELSE /\ trade_signals' = Append(trade_signals,
                                    [Stock |-> row.Stock,
                                     Gap |-> gap.gap_pct,
                                     Success |-> row.Gap_Success,
                                     Entry |-> levels.entry,
                                     Target |-> levels.target,
                                     Stop |-> levels.stop,
                                     Shares |-> sized.shares,
                                     Position |-> RMul(R(sized.shares),
                                                       levels.entry),
                                     Profit |-> sized.profit_if_target,
                                     Loss |-> sized.loss_if_stop])
                             /\ outcomes' = Append(outcomes, "Signal")
                             /\ pos' = pos + 1
                             /\ UNCHANGED <<run, report>>
               ELSE /\ outcomes' = Append(outcomes,
                           IF fetched = None THEN "DataUnavailable"
                           ELSE IF gap = None THEN "NoGap"
                                ELSE "GapNotActionable")
                    /\ pos' = pos + 1
                    /\ UNCHANGED <<run, report, trade_signals>>
    /\ UNCHANGED <<today, last_friday, csv_files, hist_stats, watchlist, watchlist_df,
                   trading_capital, signals_df, call_vars>>

\* send_monday_alert after its loop: the report, and the saved signals
MondayFinish ==
    /\ run = "monday"
    /\ pos > len(watchlist_df)
    /\ IF Len(trade_signals) = 0
       THEN /\ report' = "Monday Scanner: No Signals"
            /\ signals_df' = None
       ELSE /\ report' = "TRADE ALERT: Signals"
            /\ signals_df' = DataFrame(sort_values(trade_signals, "Success"))
    /\ run' = "monday_done"
    /\ UNCHANGED <<today, last_friday, csv_files, hist_stats, watchlist, watchlist_df,
                   trading_capital, trade_signals, pos, outcomes, call_vars, gap_info>>

\* the process of a run ends: nothing of it is left but the files
Exit ==
    /\ run \in {"friday_done", "monday_done", "monday_raised"}
    /\ run' = "idle"
    /\ watchlist' = <<>>
    /\ watchlist_df' = None
    /\ trading_capital' = None
    /\ trade_signals' = <<>>
    /\ signals_df' = None
    /\ pos' = 0
    /\ outcomes' = <<>>
    /\ report' = "none"
    /\ gap_info' = None
    /\ data' = None
    /\ UNCHANGED <<today, last_friday, csv_files, hist_stats, call_results>>

\* a day passes between two runs
NextDay ==
    /\ run = "idle"
    /\ today < LastDay
    /\ today' = today + 1
    /\ UNCHANGED <<run, last_friday, csv_files, hist_stats, watchlist,
                   watchlist_df,
                   trading_capital, trade_signals, signals_df, pos, outcomes, report,
                   call_vars, gap_info>>

Init ==
    /\ pc = "none"
    /\ data = None
    /\ pattern = None
    /\ gap_info = None
    /\ trade = None
    /\ signal = None
    /\ app_signal = None
    /\ run = "idle"
    /\ today = 0
    /\ csv_files = <<>>
    /\ hist_stats \in HistTables
    /\ watchlist = <<>>
    /\ watchlist_df = None
    /\ trading_capital = None
    /\ trade_signals = <<>>
    /\ signals_df = None
    /\ pos = 0
    /\ outcomes = <<>>
    /\ report = "none"
    /\ last_friday = <<>>

Next ==
    \/ FridayStart
    \/ FridayScan
    \/ FridayFinish
    \/ MondayStart
    \/ MondayScan
    \/ MondayFinish
    \/ Exit
    \/ NextDay

Spec == Init /\ [][Next]_vars

-----------------------------------------------------------------------------
(* Properties of the email pipeline *)

\* the watchlist file send_monday_alert loads
PersistedBatch == csv_files[LatestWatchlist(csv_files)]

\* C3: a degenerate risk (entry = stop, or entry = 0) is skipped: no pass of
\* send_monday_alert's loop ends the run with an exception, the loop goes on
\* to the remaining rows.
C3_DegenerateRiskSkipped ==
    run # "monday_raised"

\* C6: every TradeSignal's entry is the GapResult's mondayOpen, and its target
\* and stop are the fridayLow and fridayHigh persisted for its symbol.
C6_TradeLevelsFromGapAndSetup ==
    (run \in {"monday", "monday_done"} /\ Len(trade_signals) > 0) =>
        /\ \A k \in 1..Len(trade_signals) :
              \E r \in 1..Len(PersistedBatch) :
                  /\ PersistedBatch[r].Stock = trade_signals[k].Stock
                  /\ PersistedBatch[r].Friday_Low = trade_signals[k].Target
                  /\ PersistedBatch[r].Friday_High = trade_signals[k].Stop
        /\ (run = "monday" /\ outcomes[Len(outcomes)] = "Signal") =>
              /\ trade_signals[Len(trade_signals)].Entry = gap_info.monday_open
              /\ trade_signals[Len(trade_signals)].Stock
                    = PersistedBatch[pos - 1].Stock
              /\ trade_signals[Len(trade_signals)].Target
                    = PersistedBatch[pos - 1].Friday_Low
              /\ trade_signals[Len(trade_signals)].Stop
                    = PersistedBatch[pos - 1].Friday_High

\* C6 witness: a TradeSignal whose target and stop differ was just produced
C6_Witness ==
    /\ run = "monday"
    /\ Len(trade_signals) > 0
    /\ outcomes[Len(outcomes)] = "Signal"
    /\ trade_signals[Len(trade_signals)].Target
          # trade_signals[Len(trade_signals)].Stop

\* the gap of a GapResult is below -0.3%
GapBelowThreshold(gap) ==
    /\ gap.friday_close.n > 0
    /\ 1000 * (gap.monday_open.n - gap.friday_close.n)
          < -3 * gap.friday_close.n

\* C7: a pass of send_monday_alert's loop produces a TradeSignal only for
\* the symbol of a row of the loaded batch, and only when the Gap Detector
\* returned a GapResult with a gap below -0.3% for it; a pass that ended in
\* no gap or a gap that is not actionable produces none; send_friday_alert
\* produces none, whatever its passes found.
C7_SignalOnlyFromSetupAndActionableGap ==
    [][/\ trade_signals' # trade_signals /\ trade_signals' # <<>> =>
            /\ run = "monday"
            /\ trade_signals' = Append(trade_signals,
                                       trade_signals'[Len(trade_signals')])
            /\ trade_signals'[Len(trade_signals')].Stock
                  = PersistedBatch[pos].Stock
            /\ gap_info' # None
            /\ GapBelowThreshold(gap_info')
       /\ (run = "monday" /\ pos' = pos + 1
             /\ (gap_info' = None \/ ~GapBelowThreshold(gap_info'))) =>
            trade_signals' = trade_signals
       /\ run' \in {"friday", "friday_done"} => trade_signals' = <<>>
      ]_vars

\* C7 witness: a pass ended in a gap that is not actionable, after a pass
\* that produced a TradeSignal
C7_Witness ==
    /\ run = "monday"
    /\ Len(outcomes) = 2
    /\ outcomes[1] = "Signal"
    /\ outcomes[2] = "GapNotActionable"
    /\ Len(trade_signals) = 1

\* the display names of the symbols in a list of rows
Stocks(rows) == {rows[k].Stock : k \in 1..Len(rows)}

\* C8: a pass whose fetch failed or came back empty produces no candidate
\* (Friday run) and no signal (Monday run), leaves what the other passes
\* produced as it is and goes on to the next symbol; send_friday_alert ends
\* only after a pass for every symbol of the basket, each symbol with a setup
\* found being in its watchlist.
C8_FetchFailureIsolated ==
    [][/\ (Len(outcomes') = Len(outcomes) + 1
             /\ outcomes'[Len(outcomes')] = "DataUnavailable") =>
            /\ run' = run
            /\ pos' = pos + 1
            /\ watchlist' = watchlist
            /\ trade_signals' = trade_signals
            /\ report' = report
       /\ run' = "friday_done" =>
            /\ Len(outcomes') = BasketSize
            /\ \A k \in 1..BasketSize :
                  outcomes'[k] = "SetupFound"
                      <=> NIFTY_50_STOCKS[k].name \in Stocks(watchlist')
       /\ (run' = "monday_done" /\ watchlist_df' # None) =>
            Len(outcomes') = len(watchlist_df')
      ]_vars

\* C8 witness: the fetch of the first symbol failed and the second symbol's
\* pass found a setup
C8_Witness ==
    /\ run = "friday_done"
    /\ outcomes[1] = "DataUnavailable"
    /\ outcomes[2] = "SetupFound"
    /\ Stocks(watchlist) = {NIFTY_50_STOCKS[2].name}

\* C9: a Monday run that finds no watchlist file ends before any pass of its
\* loop, with no TradeSignal, and its report is neither that of a run with no
\* signals nor that of a Friday run with no setups.
C9_MissingBatchIsHardStop ==
    /\ run = "monday" => DOMAIN csv_files # {}
    /\ (run = "monday_done" /\ DOMAIN csv_files = {}) =>
          /\ outcomes = <<>>
          /\ trade_signals = <<>>
          /\ signals_df = None
          /\ gap_info = None
          /\ report # "none"
          /\ report # "Monday Scanner: No Signals"
          /\ report # "Friday Scanner: No Setups"
          /\ report # "TRADE ALERT: Signals"

\* C9 witness: a Monday run ended for want of a watchlist file
C9_Witness ==
    /\ run = "monday_done"
    /\ DOMAIN csv_files = {}
    /\ report = "Monday Scanner: Error - No Watchlist"

-----------------------------------------------------------------------------
(* Inputs of the setup detector *)

\* last day number of the setup detector's inputs (two trading weeks)
SetupLastDay == 11

\* highest High of the setup detector's inputs
SetupMaxHigh == 2

\* longest input of the setup detector
SetupMaxLen == 6

\* the High and Low of the well-formed bars: 1 <= Low <= High <= SetupMaxHigh
SetupShapes ==
    {hl \in (1..SetupMaxHigh) \X (1..SetupMaxHigh) : hl[2] <= hl[1]}

\* a bar of the day with the given High and Low, opening at its Low and
\* closing at its High
SetupBar(day, hl) ==
    [Date |-> day, Open |-> hl[2], High |-> hl[1], Low |-> hl[2],
     Close |-> hl[1]]

\* the days of a set in ascending order
RECURSIVE SortedDays(_)
SortedDays(S) ==
    IF S = {} THEN <<>>
    ELSE LET m == CHOOSE x \in S : \A y \in S : x <= y
         IN  <<m>> \o SortedDays(S \ {m})

\* every run of at most maxLen trading days, ascending, no day twice
DayRuns(days, maxLen) ==
    {SortedDays(S) : S \in {T \in SUBSET days : Cardinality(T) <= maxLen}}

\* the days of the setup detector's inputs: two trading weeks from a Thursday
SetupDays == {d \in 3..SetupLastDay : d % 7 <= 4}

InitSetup ==
    /\ pc = "call"
    /\ \/ data = None
       \/ \E ds \in DayRuns(SetupDays, SetupMaxLen) :
            \E hls \in [1..Len(ds) -> SetupShapes] :
                data = DataFrame([i \in 1..Len(ds) |-> SetupBar(ds[i], hls[i])])
    /\ pattern = None
    /\ gap_info = None
    /\ trade = None
    /\ signal = None
    /\ app_signal = None
    /\ PipelineAtRest

CallSetup ==
    /\ pc = "call"
    /\ pattern' = check_pattern_setup(data)
    /\ pc' = "done"
    /\ UNCHANGED <<data, gap_info, trade, signal, app_signal, pipeline_vars>>

NextSetup == CallSetup

SpecSetup == InitSetup /\ [][NextSetup]_vars

\* the indices of recent at which a Thursday bar is immediately followed by a
\* Friday bar
AdjacentPairs(recent) ==
    {i \in 1..(len(recent) - 1) :
        dayofweek(recent.rows[i]) = 3 /\ dayofweek(recent.rows[i + 1]) = 4}

\* C1: check_pattern_setup emits nothing when the trailing 5 bars hold no
\* Thursday bar immediately followed by a Friday bar; otherwise it emits
\* exactly when the first such pair has fridayHigh < thursdayHigh (never when
\* fridayHigh >= thursdayHigh), and the candidate's fields are that pair's.
C1_SetupOnlyOnAdjacentLowerFriday ==
    pc = "done" =>
        LET recent == IF data = None THEN DataFrame(<<>>) ELSE tail(data, 5)
            pairs == AdjacentPairs(recent)
        IN  /\ pairs = {} => pattern = None
            /\ pairs # {} =>
                LET i == CHOOSE j \in pairs : \A k \in pairs : j <= k
                    thu == recent.rows[i]
                    fri == recent.rows[i + 1]
                IN  /\ pattern # None <=> fri.High < thu.High
                    /\ pattern # None =>
                        /\ pattern.friday_high = fri.High
                        /\ pattern.friday_low = fri.Low
                        /\ pattern.friday_close = fri.Close
                        /\ pattern.decline_pct.n * thu.High
                             = (fri.High - thu.High) * 100 * pattern.decline_pct.d

\* C1 witness: a candidate was emitted from an input longer than the window
C1_Witness ==
    pc = "done" /\ pattern # None /\ data # None /\ len(data) > 5

-----------------------------------------------------------------------------
(* Inputs of the gap detector *)

\* last day number of the gap detector's inputs
GapLastDay == 11

\* longest input of the gap detector
GapMaxLen == 4

\* prices of the gap detector's inputs: 0 and GapBase - GapSpread .. GapBase
GapBase == 1000

GapSpread == 4

GapDays == {d \in 3..GapLastDay : d % 7 <= 4}

GapPrices == {0} \cup ((GapBase - GapSpread)..GapBase)

\* a bar of the day with every price p
FlatBar(day, p) ==
    [Date |-> day, Open |-> p, High |-> p, Low |-> p, Close |-> p]

InitGap ==
    /\ pc = "call"
    /\ \/ data = None
       \/ \E ds \in DayRuns(GapDays, GapMaxLen) :
            \E ps \in [1..Len(ds) -> GapPrices] :
                data = DataFrame([i \in 1..Len(ds) |-> FlatBar(ds[i], ps[i])])
    /\ pattern = None
    /\ gap_info = None
    /\ trade = None
    /\ signal = None
    /\ app_signal = None
    /\ PipelineAtRest

CallGap ==
    /\ pc = "call"
    /\ gap_info' = check_monday_gap(data)
    /\ pc' = "done"
    /\ UNCHANGED <<data, pattern, trade, signal, app_signal, pipeline_vars>>

NextGap == CallGap

SpecGap == InitGap /\ [][NextGap]_vars

\* C2: a GapResult is actionable exactly when (mondayOpen - fridayClose) /
\* fridayClose * 100 < -0.3, that is 1000 * (mondayOpen - fridayClose) <
\* -3 * fridayClose; a gap of exactly -0.3% is not actionable.
C2_ActionableIffBelowThreshold ==
    (pc = "done" /\ gap_info # None) =>
        LET mo == gap_info.monday_open.n
            fc == gap_info.friday_close.n
        IN  /\ fc > 0 =>
                /\ gap_info.has_gap_down <=> 1000 * (mo - fc) < -3 * fc
                /\ gap_info.gap_pct.n * fc = (mo - fc) * 100 * gap_info.gap_pct.d
            /\ fc = 0 => ~gap_info.has_gap_down

\* C2 witness: a gap of exactly -0.3%
C2_Witness ==
    /\ pc = "done"
    /\ gap_info # None
    /\ gap_info.gap_pct = Rat(-3, 10)
    /\ ~gap_info.has_gap_down

\* the rows of the trailing 3 bars whose weekday is dow
WindowRows(df, dow) ==
    IF df = None THEN {}
    ELSE {tail(df, 3).rows[i] : i \in {j \in 1..len(tail(df, 3)) :
                                        dayofweek(tail(df, 3).rows[j]) = dow}}

\* C10: check_monday_gap returns none when the input is absent or shorter
\* than 2 bars or its trailing 3 bars hold no Friday bar or no Monday bar; a
\* GapResult's fridayClose and mondayOpen are those of a Friday bar and of a
\* Monday bar of the trailing 3 bars.
C10_NoneWhenFridayOrMondayMissing ==
    pc = "done" =>
        /\ (data = None \/ WindowRows(data, 4) = {} \/ WindowRows(data, 0) = {})
              => gap_info = None
        /\ (data # None /\ len(data) < 2) => gap_info = None
        /\ gap_info # None =>
              /\ \E f \in WindowRows(data, 4) : gap_info.friday_close = R(f.Close)
              /\ \E m \in WindowRows(data, 0) :
                    /\ gap_info.monday_open = R(m.Open)
                    /\ gap_info.monday_low = R(m.Low)

\* C10 witness: none returned although a Friday and a Monday bar are in the
\* input, the Friday bar lying before the trailing 3 bars
C10_Witness ==
    /\ pc = "done"
    /\ gap_info = None
    /\ data # None
    /\ len(data) > 3
    /\ WindowRows(data, 0) # {}
    /\ WindowRows(data, 4) = {}
    /\ \E i \in 1..len(data) : dayofweek(data.rows[i]) = 4

-----------------------------------------------------------------------------
(* Inputs of the position sizing *)

\* highest price of the sizing's inputs
SizingMaxPrice == 4

\* the capitals of the sizing's inputs: the multiples of CapitalStep from
\* -CapitalStep to MaxCapitalSteps * CapitalStep
CapitalStep == 50

MaxCapitalSteps == 9

SizingCapitals == {k * CapitalStep : k \in -1..MaxCapitalSteps}

\* entry=100, stop=102, target=97, capital=100000
ExampleTrade == [capital |-> 100000, entry |-> 100, target |-> 97, stop |-> 102]

InitSizing ==
    /\ pc = "call"
    /\ \/ trade = ExampleTrade
       \/ trade \in [capital : SizingCapitals, entry : 0..SizingMaxPrice,
                     target : 0..SizingMaxPrice, stop : 0..SizingMaxPrice]
    /\ data = None
    /\ pattern = None
    /\ gap_info = None
    /\ signal = None
    /\ app_signal = None
    /\ PipelineAtRest

CallSizing ==
    /\ pc = "call"
    /\ signal' = MondaySizing(trade.capital, R(trade.entry), R(trade.target),
                              R(trade.stop))
    /\ app_signal' = AppMondaySizing(trade.capital, R(trade.entry),
                                     R(trade.target), R(trade.stop))
    /\ pc' = "done"
    /\ UNCHANGED <<data, pattern, gap_info, trade, pipeline_vars>>

NextSizing == CallSizing

SpecSizing == InitSizing /\ [][NextSizing]_vars

\* C4: for positive capital and entry and entry # stop, shares * |entry -
\* stop| is at most 1% of the capital, and the dashboard's Capital_Risk_% is
\* at most 1.
C4_CapitalRiskAtMostOnePercent ==
    (pc = "done" /\ trade.capital > 0 /\ trade.entry > 0
         /\ trade.entry # trade.stop) =>
        /\ signal.raised = "no"
        /\ app_signal.raised = "no"
        /\ signal.shares * Abs(trade.entry - trade.stop) * 100 <= trade.capital
        /\ app_signal.shares * Abs(trade.entry - trade.stop) * 100
              <= trade.capital
        /\ signal.loss_if_stop
              = R(signal.shares * (trade.entry - trade.stop))
        /\ app_signal.capital_risk_pct.n <= app_signal.capital_risk_pct.d
        /\ app_signal.capital_risk_pct.n * trade.capital
              = app_signal.shares * Abs(trade.entry - trade.stop) * 100
                  * app_signal.capital_risk_pct.d

\* C4 witness: the truncation left the risk strictly below 1% of the capital
C4_Witness ==
    /\ pc = "done"
    /\ trade.capital > 0 /\ trade.entry > 0 /\ trade.entry # trade.stop
    /\ signal.raised = "no"
    /\ signal.shares > 0
    /\ signal.shares * Abs(trade.entry - trade.stop) * 100 < trade.capital

\* C5: with entry > 0 and entry # stop, riskPct = |stop - entry| / entry *
\* 100, riskAmount = capital / 100, positionValue = riskAmount / (riskPct /
\* 100) and shares is positionValue / entry truncated toward zero, in both
\* pipelines; entry=100, stop=102, target=97, capital=100000 gives riskPct 2,
\* riskAmount 1000, positionValue 50000, shares 500, profitIfTarget -1500.
C5_PositionSizing ==
    (pc = "done" /\ trade.entry > 0 /\ trade.entry # trade.stop) =>
        LET c == trade.capital
            e == trade.entry
            dist == Abs(trade.stop - trade.entry)
            k == signal.shares
        IN  /\ signal.raised = "no"
            /\ app_signal.raised = "no"
            /\ signal.risk_pct.n * e = dist * 100 * signal.risk_pct.d
            /\ signal.risk_amount.n * 100 = c * signal.risk_amount.d
            /\ signal.position_value.n * 100 * dist
                  = c * e * signal.position_value.d
            /\ c >= 0 => (k >= 0 /\ k * 100 * dist <= c /\ c < (k + 1) * 100 * dist)
            /\ c < 0 => (k <= 0 /\ k * 100 * dist >= c /\ c > (k - 1) * 100 * dist)
            /\ app_signal.shares = k
            /\ app_signal.position_value = signal.position_value
            /\ app_signal.risk_pct = signal.risk_pct
            /\ trade = ExampleTrade =>
                  /\ signal.risk_pct = R(2)
                  /\ signal.risk_amount = R(1000)
                  /\ signal.position_value = R(50000)
                  /\ signal.shares = 500
                  /\ signal.profit_if_target = R(-1500)

\* C5 witness: the worked example was computed
C5_Witness ==
    /\ pc = "done"
    /\ trade = ExampleTrade
    /\ signal.raised = "no"
    /\ signal.shares = 500

-----------------------------------------------------------------------------
(* Inputs of the indicator calculator *)

\* longest input of the indicator calculator
IndMaxLen == 21

\* the Close of the first bar is IndBase plus or minus one
IndBase == 100

\* the volumes of the indicator calculator's inputs, the same at every bar
IndVolumes == {0, 1000}

\* the day number of the i-th trading day, the first one a Monday
TradingDay(i) == ((i - 1) \div 5) * 7 + ((i - 1) % 5)

\* the Close of bar i of a series that moves by a each bar up to bar k and by
\* b each bar after it
WalkClose(i, k, a, b) ==
    IndBase + a * (IF i < k THEN i ELSE k) + b * (IF i > k THEN i - k ELSE 0)

\* a bar of the day with every price p and the volume v
VolumeBar(day, p, v) ==
    [Date |-> day, Open |-> p, High |-> p, Low |-> p, Close |-> p,
     Volume |-> v]

\* how far the High of a Thursday bar can stand above its Close
IndHighs == {0, 1}

\* the bar with its High raised by h when it is a Thursday's
ThursdayHigh(bar, h) ==
    IF dayofweek(bar) = 3 THEN [bar EXCEPT !.High = @ + h] ELSE bar

InitIndicators ==
    /\ pc = "start"
    /\ \E n \in 0..IndMaxLen, first \in 1..5, k \in 0..IndMaxLen,
          a \in {-1, 0, 1}, b \in {-1, 0, 1}, v \in IndVolumes,
          h \in IndHighs :
          /\ k <= n
          /\ data = DataFrame([i \in 1..n |->
                        ThursdayHigh(VolumeBar(TradingDay(i + first - 1),
                                               WalkClose(i, k, a, b), v),
                                     h)])
    /\ pattern = None
    /\ gap_info = None
    /\ trade = None
    /\ signal = None
    /\ app_signal = None
    /\ PipelineAtRest

\* `data = calculate_indicators(data)`: the function sets the columns on the
\* frame it was given and returns that frame
CallIndicators ==
    /\ pc = "start"
    /\ data' = calculate_indicators(data)
    /\ pc' = "call"
    /\ UNCHANGED <<pattern, gap_info, trade, signal, app_signal, pipeline_vars>>

NextIndicators == CallIndicators \/ CallSetup

SpecIndicators == InitIndicators /\ [][NextIndicators]_vars

\* the columns calculate_indicators sets
IndicatorColumns == {"RSI", "SMA_20", "Volume_SMA_20", "Volume_Ratio"}

\* C11: after calculate_indicators on fewer than 20 bars the call has returned
\* and no bar of the series has an indicator field.
C11_ShortSeriesHasNoIndicators ==
    (pc \in {"call", "done"} /\ len(data) < 20) =>
        \A i \in 1..len(data) : DOMAIN data.rows[i] \cap IndicatorColumns = {}

\* C11 witness: calculate_indicators has returned a series of 19 bars
C11_Witness ==
    /\ pc = "call"
    /\ len(data) = 19
    /\ Columns(data) \cap IndicatorColumns = {}

\* C12: with fewer than 20 bars, hence no indicator field, the Setup Detector
\* emits no SetupCandidate.
C12_NoCandidateWithoutIndicators ==
    (pc = "done" /\ len(data) < 20) => pattern = None

\* the Close of bar j is at least (more than) that of the bar before it; the
\* first bar has no bar before it and counts as no move
NoLossAt(df, j) == j > 1 => df.rows[j].Close >= df.rows[j - 1].Close

GainAt(df, j) == j > 1 /\ df.rows[j].Close > df.rows[j - 1].Close

\* the trailing 14 deltas at bar i hold no loss and at least one gain
ZeroLossPositiveGain(df, i) ==
    /\ i >= 14
    /\ \A j \in (i - 13)..i : NoLossAt(df, j)
    /\ \E j \in (i - 13)..i : GainAt(df, j)

\* C13: at every bar whose trailing-14 average loss is zero and average gain
\* is positive, the RSI calculate_indicators sets is exactly 100, not nan.
C13_RsiSaturatesAt100 ==
    (pc \in {"call", "done"} /\ len(data) >= 20) =>
        \A i \in 1..len(data) :
            ZeroLossPositiveGain(data, i) => data.rows[i].RSI = R(100)

\* C13 witness: a series with a bar of RSI 100 after a zero average loss, and
\* a bar of an RSI strictly between 0 and 100
C13_Witness ==
    /\ pc = "call"
    /\ len(data) >= 20
    /\ \E i \in 1..len(data) :
          ZeroLossPositiveGain(data, i) /\ data.rows[i].RSI = R(100)
    /\ \E i \in 1..len(data) :
          RLt(R(0), data.rows[i].RSI) /\ RLt(data.rows[i].RSI, R(100))

\* C14: calculate_indicators leaves the series it was given as it was.
C14_InputLeftUnchanged ==
    [][(pc = "start" /\ pc' = "call") => data' = data]_vars

-----------------------------------------------------------------------------
(* Further properties of the email pipeline *)

\* C15: with a configured capital of zero or less the Monday run produces no
\* TradeSignal.
C15_NoSignalWithoutPositiveCapital ==
    (run = "monday" /\ trading_capital <= 0) => trade_signals = <<>>

\* the trailing 5 bars of df hold a Thursday bar immediately followed by a
\* Friday bar, and the first such pair has fridayHigh < thursdayHigh
FirstPairQualifies(df) ==
    /\ df # None
    /\ AdjacentPairs(tail(df, 5)) # {}
    /\ LET recent == tail(df, 5)
           i == CHOOSE j \in AdjacentPairs(recent) :
                    \A k \in AdjacentPairs(recent) : j <= k
       IN  recent.rows[i + 1].High < recent.rows[i].High

\* C16: a pass of send_friday_alert's loop adds one entry for its symbol to
\* the watchlist when the symbol's bars hold an adjacent Thursday/Friday pair
\* with fridayHigh < thursdayHigh, and nothing otherwise; the file written at
\* the end holds exactly the watchlist's entries, no symbol twice.
C16_BatchHoldsExactlyTheQualifyingSymbols ==
    [][/\ (run = "friday" /\ pos' = pos + 1) =>
            IF FirstPairQualifies(data')
            THEN /\ Len(watchlist') = Len(watchlist) + 1
                 /\ SubSeq(watchlist', 1, Len(watchlist)) = watchlist
                 /\ watchlist'[Len(watchlist')].Stock
                       = NIFTY_50_STOCKS[pos].name
                 /\ watchlist'[Len(watchlist')].NSE_Code
                       = NIFTY_50_STOCKS[pos].symbol
                 /\ NIFTY_50_STOCKS[pos].name \notin Stocks(watchlist)
            ELSE watchlist' = watchlist
       /\ (run' = "friday_done" /\ watchlist' # <<>>) =>
            /\ Len(csv_files'[today']) = Len(watchlist')
            /\ Stocks(csv_files'[today']) = Stocks(watchlist')
            /\ Cardinality(Stocks(watchlist')) = Len(watchlist')
      ]_vars

\* C16 witness: the first symbol's Friday High is below its Thursday High, the
\* second symbol's is not, and the batch holds the first symbol alone
C16_Witness ==
    /\ run = "friday_done"
    /\ outcomes = <<"SetupFound", "NoSetup">>
    /\ data # None
    /\ AdjacentPairs(tail(data, 5)) # {}
    /\ ~FirstPairQualifies(data)
    /\ Stocks(csv_files[today]) = {NIFTY_50_STOCKS[1].name}

\* the columns of the watchlist file send_monday_alert reads
MondayReads == {"Stock", "NSE_Code", "Friday_Low", "Friday_High", "Gap_Success"}

\* two rows agree on every column send_monday_alert reads
SameForMonday(written, back) ==
    /\ MondayReads \subseteq DOMAIN written
    /\ MondayReads \subseteq DOMAIN back
    /\ \A c \in MondayReads : back[c] = written[c]

-----------------------------------------------------------------------------
(* Further properties of the position sizing *)

\* C18 as stated: profitIfTarget = shares * (target - entry), lossIfStop =
\* shares * (entry - stop), and lossIfStop is not negative when shares are
\* held and the stop, above the entry as the Friday high is above a gapped
\* down open, is hit (the loss the risk budget is sized for).
C18_LossPositiveWhenStopLoses ==
    (pc = "done" /\ signal.raised = "no") =>
        /\ signal.profit_if_target
              = R(signal.shares * (trade.target - trade.entry))
        /\ signal.loss_if_stop = R(signal.shares * (trade.entry - trade.stop))
        /\ (signal.shares > 0 /\ trade.stop > trade.entry) =>
              RLe(R(0), signal.loss_if_stop)

\* C18 amended: profitIfTarget = shares * (target - entry) and lossIfStop =
\* shares * (entry - stop) in both pipelines; lossIfStop is signed, negative
\* when shares are held and the stop is above the entry, and its magnitude is
\* shares * |entry - stop|.
C18_ProfitAndSignedLoss ==
    (pc = "done" /\ signal.raised = "no") =>
        /\ app_signal.raised = "no"
        /\ signal.profit_if_target
              = R(signal.shares * (trade.target - trade.entry))
        /\ signal.loss_if_stop = R(signal.shares * (trade.entry - trade.stop))
        /\ app_signal.profit_if_target = signal.profit_if_target
        /\ app_signal.loss_if_stop = signal.loss_if_stop
        /\ (signal.shares > 0 /\ trade.stop > trade.entry) =>
              RLt(signal.loss_if_stop, R(0))
        /\ RAbs(signal.loss_if_stop)
              = R(Abs(signal.shares) * Abs(trade.entry - trade.stop))

\* C18 witness: shares are held, the stop is above the entry and lossIfStop is
\* negative
C18_Witness ==
    /\ pc = "done"
    /\ signal.raised = "no"
    /\ signal.shares > 0
    /\ trade.stop > trade.entry
    /\ RLt(signal.loss_if_stop, R(0))

-----------------------------------------------------------------------------
(* Further properties of the setup detector *)

\* the indices of the Thursday bars of recent
Thursdays(recent) ==
    {i \in 1..len(recent) : dayofweek(recent.rows[i]) = 3}

\* the least index of a non-empty set of indices
First(S) == CHOOSE i \in S : \A j \in S : i <= j

\* the first Thursday bar of the window is not immediately followed by a
\* Friday bar
FirstThursdayIsAlone(recent) ==
    /\ Thursdays(recent) # {}
    /\ First(Thursdays(recent)) \notin AdjacentPairs(recent)

\* C19 as stated: when the first Thursday of the trailing 5 bars is not
\* immediately followed by a Friday, no candidate is emitted.
C19_NoCandidateAfterLoneThursday ==
    (pc = "done" /\ data # None /\ FirstThursdayIsAlone(tail(data, 5))) =>
        pattern = None

\* C19 amended: the scan ends at the first Thursday bar that is immediately
\* followed by a Friday bar.  A Thursday that is not does not end it: the
\* first adjacent pair after it decides, and its Highs are the candidate's.
\* A second adjacent pair of the window is never considered.
C19_ScanEndsAtFirstAdjacentPair ==
    (pc = "done" /\ data # None /\ len(data) >= 2) =>
        LET recent == tail(data, 5)
            pairs == AdjacentPairs(recent)
        IN  /\ (FirstThursdayIsAlone(recent) /\ pairs # {}) =>
                  /\ pattern # None <=>
                        recent.rows[First(pairs) + 1].High
                            < recent.rows[First(pairs)].High
                  /\ pattern # None =>
                        pattern.friday_high = recent.rows[First(pairs) + 1].High
            /\ (Cardinality(pairs) >= 2
                  /\ recent.rows[First(pairs) + 1].High
                        >= recent.rows[First(pairs)].High) =>
                  pattern = None

\* C19 witness: a candidate emitted from the pair after a Thursday that no
\* Friday follows
C19_Witness ==
    /\ pc = "done"
    /\ data # None
    /\ FirstThursdayIsAlone(tail(data, 5))
    /\ pattern # None

-----------------------------------------------------------------------------
(* Further properties of the gap detector *)

\* the indices of the trailing 3 bars of df whose weekday is dow
WindowIndices(df, dow) ==
    {i \in 1..len(tail(df, 3)) : dayofweek(tail(df, 3).rows[i]) = dow}

\* the greatest index of a non-empty set of indices
Last(S) == CHOOSE i \in S : \A j \in S : j <= i

\* C20: with 2 bars or more, check_monday_gap returns a GapResult whenever
\* the trailing 3 bars hold a Friday bar and a Monday bar, in either order:
\* the close of the last Friday bar with the open of the last Monday bar.
C20_PairingIgnoresOrder ==
    (pc = "done" /\ data # None /\ len(data) >= 2
         /\ WindowIndices(data, 4) # {} /\ WindowIndices(data, 0) # {}) =>
        /\ gap_info # None
        /\ gap_info.friday_close
              = R(tail(data, 3).rows[Last(WindowIndices(data, 4))].Close)
        /\ gap_info.monday_open
              = R(tail(data, 3).rows[Last(WindowIndices(data, 0))].Open)

\* C20 witness: a GapResult from a window whose Monday bar is before its
\* Friday bar
C20_Witness ==
    /\ pc = "done"
    /\ data # None
    /\ gap_info # None
    /\ WindowIndices(data, 4) # {}
    /\ WindowIndices(data, 0) # {}
    /\ Last(WindowIndices(data, 0)) < Last(WindowIndices(data, 4))

\* C21: every candidate's declinePct is (fridayHigh - thursdayHigh) /
\* thursdayHigh * 100 of the pair it was emitted from, and is at most 0, the
\* highs being positive.
C21_DeclineIsNotPositive ==
    (pc = "done" /\ pattern # None) =>
        LET recent == tail(data, 5)
            thu == recent.rows[First(AdjacentPairs(recent))]
            fri == recent.rows[First(AdjacentPairs(recent)) + 1]
        IN  /\ thu.High > 0 /\ fri.High > 0
            /\ pattern.decline_pct
                  = Rat((fri.High - thu.High) * 100, thu.High)
            /\ RLe(pattern.decline_pct, R(0))
            /\ pattern.decline_pct # R(0)

\* C21 witness: a candidate whose Friday High is half its Thursday High
C21_Witness ==
    /\ pc = "done"
    /\ pattern # None
    /\ pattern.friday_high = 1
    /\ pattern.decline_pct = R(-50)

-----------------------------------------------------------------------------
(* Further properties of the indicator calculator *)

\* the RSI column of the series has a value that is not nan at some bar
SomeRsiDefined(df) ==
    "RSI" \in Columns(df) /\ DefinedRsi(df) # {}

-----------------------------------------------------------------------------
(* The hand-over between the runs of the email pipeline *)

\* the email pipeline with the history of what the latest Friday run found
NextHandover ==
    \/ FridayStart
    \/ FridayScan
    \/ FridayFinishRecorded
    \/ MondayStart
    \/ MondayScan
    \/ MondayFinish
    \/ Exit
    \/ NextDay

SpecHandover == Init /\ [][NextHandover]_vars

\* C23: every TradeSignal of a Monday run is derived from a setup found by
\* the latest Friday run before it; after a Friday run that found no setup
\* the Monday run emits no TradeSignal.
C23_SignalsFromLatestFridayRun ==
    (run \in {"monday", "monday_done"}) =>
        \A k \in 1..Len(trade_signals) :
            \E j \in 1..Len(last_friday) :
                /\ last_friday[j].Stock = trade_signals[k].Stock
                /\ last_friday[j].Friday_Low = trade_signals[k].Target
                /\ last_friday[j].Friday_High = trade_signals[k].Stop

-----------------------------------------------------------------------------
(* Inputs of the signal synthesis: a setup, the Monday data, the capital *)

\* how far the Friday Close of the Monday download can stand above the Close
\* the Friday download had
SignalDrifts == {0, 1}

\* a bar of the day with the given prices
PriceBar(day, open, high, low, close) ==
    [Date |-> day, Open |-> open, High |-> high, Low |-> low, Close |-> close]

\* the row of the watchlist file for what the setup detector found, as
\* send_monday_alert reads it back
PersistedRow(found) ==
    read_csv(to_csv(<<[Friday_Low |-> R(found.friday_low),
                       Friday_Close |-> R(found.friday_close),
                       Friday_High |-> R(found.friday_high)]>>)).rows[1]

\* the setup of a Thursday and a Friday bar, and the Monday download: the
\* Friday bar again, its Close possibly restated, and the Monday bar
InitSignal ==
    /\ pc = "call"
    /\ \E l \in 0..SizingMaxPrice, c \in 0..SizingMaxPrice,
          h \in 0..SizingMaxPrice, o \in 0..SizingMaxPrice,
          drift \in SignalDrifts, capital \in SizingCapitals :
          LET thursday == PriceBar(3, h + 1, h + 1, h + 1, h + 1)
              friday == PriceBar(4, c, h, l, c)
              monday == PriceBar(7, o, o, o, o)
          IN  /\ pattern = check_pattern_setup(DataFrame(<<thursday, friday>>))
              /\ data = DataFrame(<<thursday,
                                    [friday EXCEPT !.Close = @ + drift],
                                    monday>>)
              /\ trade = [capital |-> capital]
    /\ gap_info = None
    /\ signal = None
    /\ app_signal = None
    /\ PipelineAtRest

\* the body of `if gap_info and gap_info['has_gap_down']:` in both pipelines
SynthesizeSignal ==
    /\ pc = "done"
    /\ pattern # None
    /\ trade # None
    /\ Actionable(gap_info)
    /\ LET levels == TradeLevels(gap_info, PersistedRow(pattern))
       IN  /\ signal' = MondaySizing(trade.capital, levels.entry,
                                     levels.target, levels.stop)
           /\ app_signal' = AppMondaySizing(trade.capital, levels.entry,
                                            levels.target, levels.stop)
    /\ pc' = "sized"
    /\ UNCHANGED <<data, pattern, gap_info, trade, pipeline_vars>>

NextSignal == CallGap \/ SynthesizeSignal

SpecSignal == InitSignal /\ [][NextSignal]_vars

\* the Friday bar of the setup has 0 < low <= close <= high
WellFormedFriday(found) ==
    /\ 0 < found.friday_low
    /\ found.friday_low <= found.friday_close
    /\ found.friday_close <= found.friday_high

\* C24: with a well-formed Friday bar whose Close is the Friday close the gap
\* detector saw, every actionable gap has entry < stop and riskPct > 0, the
\* share computation divides by no zero in either pipeline, and the email
\* pipeline and the dashboard compute the same shares.
C24_WellFormedFridayNeverDegenerate ==
    (/\ pc = "sized"
     /\ WellFormedFriday(pattern)
     /\ gap_info.friday_close = R(pattern.friday_close)) =>
        /\ RLt(gap_info.monday_open, R(pattern.friday_high))
        /\ signal.raised = "no"
        /\ app_signal.raised = "no"
        /\ RLt(R(0), signal.risk_pct)
        /\ RLt(R(0), app_signal.risk_pct)
        /\ app_signal.shares = signal.shares

====
